---- MODULE Spec2Model ----
(***************************************************************************)
(* Model of enhanced_magisk_patcher.py: the GUI front-end that patches an  *)
(* Android boot image by driving the external magiskboot binary.           *)
(*                                                                         *)
(* The Tk main thread runs the button handlers (patch_boot_image,          *)
(* clean_temp_files, the file and option selections); every confirmed      *)
(* PATCH starts one _patch_worker thread.  A worker is a sequence of steps *)
(* (pc), one per statement group of _patch_worker; the handlers interleave *)
(* with the worker's steps.                                                *)
(***************************************************************************)
EXTENDS Integers, Sequences, FiniteSets, TLC

(***************************************************************************)
(* Bounds of the model.                                                    *)
(***************************************************************************)
\* thread slots: how many _patch_worker threads can exist at the same time
MaxWorkers == 2
\* how many magisk_patch_ directories can exist at the same time
MaxDirs == 2
\* how many selections and option changes the user makes
MaxEdits == 3
\* how many unexpected exceptions the environment raises
MaxFaults == 1

\* thread slots: how many _download_magisk_worker threads can exist
MaxDownloaders == 2

Workers == 1..MaxWorkers
Downloaders == 1..MaxDownloaders
Dirs == 1..MaxDirs

(***************************************************************************)
(* Values of the program.                                                  *)
(***************************************************************************)
None == "None"

\* create_architecture_selection: the four radio buttons
Architectures == {"arm64-v8a", "armeabi-v7a", "x86_64", "x86"}

\* create_options_section: the five check buttons, by attribute name
OptionNames ==
    {"keep_verity", "keep_force_encrypt", "recovery_mode",
     "patch_vbmeta_flag", "legacy_sar"}

\* the check buttons the user clicks
ToggledOptions == {"keep_verity", "legacy_sar"}

\* __init__: the BooleanVar defaults
DefaultOptions ==
    [o \in OptionNames |-> o \in {"keep_verity", "keep_force_encrypt"}]

\* _patch_worker: the environment captured from the options
EnvOf(opts) ==
    [KEEPVERITY       |-> IF opts["keep_verity"] THEN "true" ELSE "false",
     KEEPFORCEENCRYPT |-> IF opts["keep_force_encrypt"] THEN "true" ELSE "false",
     RECOVERYMODE     |-> IF opts["recovery_mode"] THEN "true" ELSE "false",
     PATCHVBMETAFLAG  |-> IF opts["patch_vbmeta_flag"] THEN "true" ELSE "false",
     LEGACYSAR        |-> IF opts["legacy_sar"] THEN "true" ELSE "false"]

NoEnv == EnvOf([o \in OptionNames |-> FALSE])

\* os.environ of the program, which it never changes: none of the five
\* flags is set in it ("" for a variable that is not set)
Environ ==
    [KEEPVERITY |-> "", KEEPFORCEENCRYPT |-> "", RECOVERYMODE |-> "",
     PATCHVBMETAFLAG |-> "", LEGACYSAR |-> ""]

\* exit codes a toolkit process can end with; -1 is run_command's own value
ExitCodes == {0, 1, 2}

(***************************************************************************)
(* Sequences helpers.                                                      *)
(***************************************************************************)
Range(s) == {s[i] : i \in 1..Len(s)}

RECURSIVE Join(_)
Join(toks) == IF toks = <<>> THEN "" ELSE Head(toks) \o Join(Tail(toks))

RECURSIVE Without(_, _)
\* str.replace(tok, ''): every occurrence of the token is removed
Without(toks, tok) ==
    IF toks = <<>> THEN <<>>
    ELSE IF Head(toks) = tok THEN Without(Tail(toks), tok)
    ELSE <<Head(toks)>> \o Without(Tail(toks), tok)

(***************************************************************************)
(* The input package.  A ZIP entry is its directory segments and the       *)
(* tokens of its last segment (the file name is the tokens joined; "lib"   *)
(* and ".so" occur in a name only as tokens).                              *)
(***************************************************************************)
Entry(dirs, name) == [dirs |-> dirs, name |-> name]

Lib(arch, base) == Entry(<<"lib", arch>>, <<"lib", base, ".so">>)

\* the ver of a package that declares no MAGISK_VER_CODE
NoVersion == -1

\* a package: whether zipfile can read it, the MAGISK_VER_CODE its
\* assets/util_functions.sh declares (NoVersion when none is found), its
\* entries
Package(readable, ver, filelist) ==
    [readable |-> readable, ver |-> ver, filelist |-> filelist]

PkgOld ==
    Package(TRUE, 27000,
        << Entry(<<"assets">>, <<"util_functions.sh">>),
           Entry(<<"assets">>, <<"stub.apk">>),
           Lib("arm64-v8a", "magiskinit"),
           Lib("arm64-v8a", "magiskboot"),
           Lib("armeabi-v7a", "magiskinit"),
           Lib("armeabi-v7a", "magisk32") >>)

PkgNoInit ==
    Package(TRUE, NoVersion,
        << Entry(<<"assets">>, <<"stub.apk">>),
           Lib("x86", "magisk32"),
           Lib("x86", "magiskpolicy") >>)

PkgBad == Package(FALSE, NoVersion, <<>>)

\* the packages the user can select, by file name
PackageNames == {"old.apk", "noinit.apk", "bad.apk"}

PackageAt(apk_path) ==
    CASE apk_path = "old.apk" -> PkgOld
      [] apk_path = "noinit.apk" -> PkgNoInit
      [] apk_path = "Magisk.apk" -> PkgOld
      [] OTHER -> PkgBad

(***************************************************************************)
(* extract_from_apk                                                        *)
(***************************************************************************)
StartsWithLib(name) == Len(name) >= 1 /\ name[1] = "lib"
EndsWithSo(name) == Len(name) >= 1 /\ name[Len(name)] = ".so"

\* the libraries extract_from_apk skips
SkippedLibs ==
    { <<"lib", "magiskboot", ".so">>, <<"lib", "busybox", ".so">>,
      <<"lib", "magiskpolicy", ".so">> }

CompatThreshold == 28000

\* lines 1000-1019: magisk_ver starts at 0 and stays there when no version
\* code is found
MagiskVer(pkg) == IF pkg.ver = NoVersion THEN 0 ELSE pkg.ver

\* the first loop: the architecture folders among the lib/<arch>/<x>.so entries
AvailableLibs(filelist) ==
    { e.dirs[2] : e \in { x \in Range(filelist) :
          /\ Len(x.dirs) = 2
          /\ x.dirs[1] = "lib"
          /\ EndsWithSo(x.name) } }

\* file_name.replace('lib', '').replace('.so', '')
OutputName(name) == Join(Without(Without(name, "lib"), ".so"))

\* the logical name one entry is extracted under, None when it is not taken
ExtractedAs(e, arch, ver) ==
    IF Len(e.dirs) < 1 THEN None
    ELSE LET parent_dir == e.dirs[Len(e.dirs)] IN
        IF StartsWithLib(e.name) /\ EndsWithSo(e.name)
        THEN IF e.name \in SkippedLibs THEN None
             ELSE IF parent_dir = arch THEN OutputName(e.name)
             ELSE IF /\ ver < CompatThreshold
                     /\ e.name = <<"lib", "magisk32", ".so">>
                     /\ \/ arch = "arm64-v8a" /\ parent_dir = "armeabi-v7a"
                        \/ arch = "x86_64" /\ parent_dir = "x86"
                  THEN "magisk32"
             ELSE None
        ELSE IF e.name = <<"stub.apk">> THEN "stub.apk"
        ELSE None

RECURSIVE ExtractLoop(_, _, _, _)
\* the second loop: needed maps a logical name to the index of the entry
\* last written under it
ExtractLoop(filelist, i, arch, ver) ==
    IF i = 0 THEN << >>
    ELSE LET before == ExtractLoop(filelist, i - 1, arch, ver)
             name == ExtractedAs(filelist[i], arch, ver)
         IN IF name = None THEN before
            ELSE [n \in DOMAIN before \cup {name} |->
                     IF n = name THEN i ELSE before[n]]

\* the files extract_from_apk writes into temp_dir, whatever it returns
ExtractWritten(pkg, arch) ==
    IF ~pkg.readable THEN {}
    ELSE DOMAIN ExtractLoop(pkg.filelist, Len(pkg.filelist), arch,
                            MagiskVer(pkg))

\* which entry each file extract_from_apk wrote holds: the position in the
\* archive of the entry written last under the name
ExtractContent(pkg, arch) ==
    IF ~pkg.readable THEN << >>
    ELSE ExtractLoop(pkg.filelist, Len(pkg.filelist), arch, MagiskVer(pkg))

\* extract_from_apk without the check of lines 1095-1106
NothingRequired == {}

RequiredFiles == {"magiskinit"}

\* the value of a failed extraction: `if not needed_files` takes None and the
\* empty dict alike
NoFiles == << >>

\* what extract_from_apk returns: nothing, or needed_files as a map from the
\* logical name to the path written, os.path.join(temp_dir, output_name)
ExtractFromApk(pkg, arch, temp_dir) ==
    IF ~pkg.readable THEN NoFiles
    ELSE LET got == ExtractLoop(pkg.filelist, Len(pkg.filelist), arch,
                                MagiskVer(pkg))
         IN IF ~(RequiredFiles \subseteq DOMAIN got) THEN NoFiles
            ELSE [n \in DOMAIN got |-> <<temp_dir, n>>]

\* a line of the log: its level, its text, the names it lists
LogLine(level, msg, about) == [level |-> level, msg |-> msg, about |-> about]

\* an extract_from_apk that fails without a word
ExtractLogSilent(pkg, arch) == << >>

\* the errors and warnings extract_from_apk logs from line 1095 on, and at
\* line 1110 when the archive cannot be read
ExtractLog(pkg, arch) ==
    IF ~pkg.readable
    THEN << LogLine("ERROR", "Failed to extract from APK", {}) >>
    ELSE LET got == ExtractLoop(pkg.filelist, Len(pkg.filelist), arch,
                                MagiskVer(pkg))
             missing_files == RequiredFiles \ DOMAIN got
         IN IF missing_files = {} THEN << >>
            ELSE << LogLine("ERROR", "Missing required files", missing_files) >>
                 \o (IF arch \notin AvailableLibs(pkg.filelist)
                     THEN << LogLine("ERROR", "Architecture not available", {arch}),
                             LogLine("WARNING", "Try one of",
                                     AvailableLibs(pkg.filelist)) >>
                     ELSE << >>)


(***************************************************************************)
(* State.                                                                  *)
(***************************************************************************)
VARIABLES
    boot_image_file,  \* self.boot_image_file: None or the selected image
    magisk_apk_file,  \* self.magisk_apk_file: None or the selected package
    apk,              \* what zipfile reads at that path
    magiskboot_path,  \* self.magiskboot_path: None or the toolkit binary
    arch_var,         \* self.arch_var
    options,          \* the five BooleanVars
    is_patching,      \* self.is_patching
    temp_dir,         \* self.temp_dir: 0 for None, else a directory
    dialog,           \* the modal dialog patch_boot_image has open
    tmp,              \* the magisk_patch_ directories that exist
    files,            \* the files in them, as <<directory, name>>
    worker,           \* the _patch_worker threads, by slot
    edits,            \* selections and option changes made so far
    faults,           \* unexpected exceptions raised so far
    downloader,       \* the _download_magisk_worker threads, by slot
    downloaded        \* the file the download writes: none, partial, whole

vars ==
    << boot_image_file, magisk_apk_file, apk, magiskboot_path, arch_var,
       options, is_patching, temp_dir, dialog, tmp, files, worker, edits,
       faults, downloader, downloaded >>

\* what _patch_worker and its commands never write
gui ==
    << boot_image_file, magisk_apk_file, apk, magiskboot_path, arch_var,
       options, downloader, downloaded >>

\* a slot with no thread in it
IdleWorker ==
    [pc             |-> "idle",
     invoked        |-> << >>,    \* the toolkit commands the run has invoked
     waiting        |-> 0,        \* the one run_command reads from, by its
                                  \* position in invoked (0: none)
     procs          |-> {},       \* the ones whose process is alive
     created        |-> 0,        \* the directory its mkdtemp made
     arch           |-> None,
     needed_files   |-> NoFiles,
     content        |-> << >>,    \* the archive entry each extracted file holds
     log            |-> << >>,    \* what extract_from_apk logged as failure
     proc_env       |-> Environ,  \* environment of the process started last
     started        |-> [arch |-> None, options |-> DefaultOptions],
                                  \* history: the selections when the run started
     env            |-> NoEnv,
     ramdisk        |-> None,     \* os.path.exists(ramdisk_path) at line 729
     result         |-> None,     \* the local result: the last exit code kept
     sha1           |-> "",
     idx            |-> 0,        \* position in the loop being run
     kernel_patched |-> FALSE,
     hexpatched     |-> << >>,    \* the patterns the kernel stage has tried
     config         |-> << >>,    \* the lines written to the config file
     cpio_commands  |-> << >>,    \* the arguments of the ramdisk patch
     saved          |-> FALSE,    \* the patched image was copied out
     error          |-> None,     \* the exception the handler caught
     dying          |-> FALSE,    \* an exception is propagating out
     outcome        |-> None]

\* the pc values inside the try block
TryPcs ==
    {"begin", "extract", "env", "unpack", "ramdisk", "cpio_test",
     "cpio_restore", "sha1", "compress", "magiskinit", "config",
     "patch_ramdisk", "cpio_patch", "kernel", "hexpatch", "kernel_done", "dtb", "dtb_test",
     "dtb_patch", "repack", "finalize"}

LivePcs == {"start"} \cup TryPcs \cup {"except", "cleanup", "reset"}

Live(w) == worker[w].pc \in LivePcs

Init ==
    /\ boot_image_file = None
    /\ magisk_apk_file = None
    /\ apk = PkgBad
    /\ magiskboot_path \in {None, "magiskboot"}
    /\ arch_var = "arm64-v8a"
    /\ options = DefaultOptions
    /\ is_patching = FALSE
    /\ temp_dir = 0
    /\ dialog = "none"
    /\ tmp = {}
    /\ files = {}
    /\ worker = [w \in Workers |-> IdleWorker]
    /\ edits = 0
    /\ faults = 0
    /\ downloader = [d \in Downloaders |-> "idle"]
    /\ downloaded = "none"

(***************************************************************************)
(* The main thread: selections and options.                                *)
(***************************************************************************)
\* selecting the same file again changes nothing and is left out, here and
\* in the other selections
select_boot_image ==
    /\ dialog = "none"
    /\ edits < MaxEdits
    /\ boot_image_file # "boot.img"
    /\ boot_image_file' = "boot.img"
    /\ edits' = edits + 1
    /\ UNCHANGED << magisk_apk_file, apk, magiskboot_path, arch_var, options,
                    is_patching, temp_dir, dialog, tmp, files, worker, faults,
                    downloader, downloaded >>

select_magisk_apk(filename) ==
    /\ dialog = "none"
    /\ edits < MaxEdits
    /\ magisk_apk_file # filename
    /\ magisk_apk_file' = filename
    /\ apk' = PackageAt(filename)
    /\ edits' = edits + 1
    /\ UNCHANGED << boot_image_file, magiskboot_path, arch_var, options,
                    is_patching, temp_dir, dialog, tmp, files, worker, faults,
                    downloader, downloaded >>

SelectArchitecture(value) ==
    /\ dialog = "none"
    /\ edits < MaxEdits
    /\ arch_var # value
    /\ arch_var' = value
    /\ edits' = edits + 1
    /\ UNCHANGED << boot_image_file, magisk_apk_file, apk, magiskboot_path,
                    options, is_patching, temp_dir, dialog, tmp, files, worker,
                    faults, downloader, downloaded >>

ToggleOption(o) ==
    /\ dialog = "none"
    /\ edits < MaxEdits
    /\ options' = [options EXCEPT ![o] = ~@]
    /\ edits' = edits + 1
    /\ UNCHANGED << boot_image_file, magisk_apk_file, apk, magiskboot_path,
                    arch_var, is_patching, temp_dir, dialog, tmp, files, worker,
                    faults, downloader, downloaded >>

(***************************************************************************)
(* patch_boot_image                                                        *)
(***************************************************************************)
\* patch_boot_image without the test of line 637
NeverPatching == FALSE

\* line 637: the request is refused while a run is in progress
AlreadyPatching == is_patching

\* lines 641-651: the three selections a run needs
MissingSelection ==
    \/ boot_image_file = None
    \/ magisk_apk_file = None
    \/ magiskboot_path = None

\* lines 635-660: up to the confirmation dialog; the refusals change nothing
patch_boot_image ==
    /\ dialog = "none"
    /\ IF AlreadyPatching \/ MissingSelection
       THEN dialog' = "none"
       ELSE dialog' = "confirm"
    /\ UNCHANGED << gui, is_patching, temp_dir, tmp, files, worker, edits, faults >>

FreeSlots == {w \in Workers : ~Live(w)}

\* lines 662-669: the answer to askyesno; yes starts the worker thread
ConfirmPatch(result) ==
    /\ dialog = "confirm"
    /\ dialog' = "none"
    /\ IF result
       THEN /\ FreeSlots # {}
            /\ is_patching' = TRUE
            /\ LET w == CHOOSE x \in FreeSlots : \A y \in FreeSlots : x <= y
               IN worker' = [worker EXCEPT ![w] =
                      [IdleWorker EXCEPT
                          !.pc = "start",
                          !.started = [arch |-> arch_var, options |-> options]]]
       ELSE UNCHANGED << is_patching, worker >>
    /\ UNCHANGED << gui, temp_dir, tmp, files, edits, faults >>

(***************************************************************************)
(* clean_temp_files: every magisk_patch_ directory of the temp folder is   *)
(* removed.                                                                *)
(***************************************************************************)
clean_temp_files ==
    /\ dialog = "none"
    /\ tmp' = {}
    /\ files' = {}
    /\ UNCHANGED << gui, is_patching, temp_dir, dialog, worker, edits, faults >>

(***************************************************************************)
(* File operations.                                                        *)
(***************************************************************************)
\* shutil.copy2(src, dst) with the files fls: the exception raised, or "ok"
Copy2(src, dst, fls) ==
    IF src \notin fls THEN "FileNotFoundError"
    ELSE IF src = dst THEN "SameFileError"
    ELSE IF dst[1] \notin tmp THEN "FileNotFoundError"
    ELSE "ok"

\* the files of directory d
FilesOf(d) == {f \in files : f[1] = d}

\* a file the toolkit or the worker writes: nothing when the directory is gone
Written(d, names) == IF d \in tmp THEN {<<d, n>> : n \in names} ELSE {}

(***************************************************************************)
(* _patch_worker, up to the payload.                                       *)
(***************************************************************************)
\* raise Exception(msg) inside the try block: control goes to the handler
Raise(wk, msg) == [wk EXCEPT !.pc = "except", !.error = msg]

WorkerOnly == << gui, is_patching, temp_dir, dialog, tmp, files, edits, faults >>

\* lines 673-675: the widget calls before the try block
WorkerStart(w) ==
    /\ worker[w].pc = "start"
    /\ worker' = [worker EXCEPT ![w].pc = "begin"]
    /\ UNCHANGED WorkerOnly

\* the directory name mkdtemp picks: one that does not exist
FreshDirs == Dirs \ tmp

\* lines 678-695: the working directory is made and the boot image copied in
StageWorkingDir(w) ==
    /\ worker[w].pc = "begin"
    /\ FreshDirs # {}
    /\ LET d == CHOOSE x \in FreshDirs : \A y \in FreshDirs : x <= y
       IN /\ temp_dir' = d
          /\ tmp' = tmp \cup {d}
          /\ files' = files \cup {<<d, "boot.img">>}
          /\ worker' = [worker EXCEPT ![w].pc = "extract", ![w].created = d]
    /\ UNCHANGED << gui, is_patching, dialog, edits, faults >>

\* lines 697-704: the payload is extracted for the architecture selected now
ExtractPayload(w) ==
    /\ worker[w].pc = "extract"
    /\ LET arch == arch_var
           pkg == apk
           needed_files == ExtractFromApk(pkg, arch, temp_dir)
           wk == [worker[w] EXCEPT !.arch = arch,
                                   !.needed_files = needed_files,
                                   !.content = ExtractContent(pkg, arch),
                                   !.log = ExtractLog(pkg, arch)]
       IN /\ files' = files \cup Written(temp_dir, ExtractWritten(pkg, arch))
          /\ worker' = [worker EXCEPT ![w] =
                 IF DOMAIN needed_files = {}
                 THEN Raise(wk, "Failed to extract necessary files from APK")
                 ELSE [wk EXCEPT !.pc = "env"]]
    /\ UNCHANGED << gui, is_patching, temp_dir, dialog, tmp, edits, faults >>

\* lines 706-716: the five flags are read into env
CaptureEnv(w) ==
    /\ worker[w].pc = "env"
    /\ worker' = [worker EXCEPT ![w].env = EnvOf(options), ![w].pc = "unpack"]
    /\ UNCHANGED WorkerOnly

(***************************************************************************)
(* run_command.  The worker calls it at the pc values of CommandAt; the    *)
(* call returns an exit code and the stage goes on from it (AfterCommand). *)
(***************************************************************************)
\* the files the toolkit's unpack can leave in the working directory
UnpackResults ==
    { {"kernel", "ramdisk.cpio"},
      {"ramdisk.cpio", "kernel_dtb"},
      {"kernel", "dtb", "extra"} }

\* lines 761 and 769: the payload files compressed, in order
CompressList == << "magisk", "magisk32", "magisk64", "init-ld", "stub.apk" >>

\* lines 764 and 771: the compressed file's name
XzName(filename) == IF filename = "stub.apk" THEN "stub.xz" ELSE filename \o ".xz"

\* the next file of CompressList, from position i on, that is in needed_files
RECURSIVE NextCompress(_, _)
NextCompress(wk, i) ==
    IF i > Len(CompressList) THEN i
    ELSE IF CompressList[i] \in DOMAIN wk.needed_files THEN i
    ELSE NextCompress(wk, i + 1)

\* lines 838-843: the three kernel patches
BasePatches == 3

\* lines 838-843 and 855: the patterns looked for, by their first bytes
Patches == << "49010054", "821B8012", "70726F63" >>
LegacySarPatch == "736B6970"

\* the pattern of attempt i of the kernel stage
PatchAt(i) == IF i <= Len(Patches) THEN Patches[i] ELSE LegacySarPatch

\* the kernel stage with the base patches only
BaseAttemptsOnly(wk) == BasePatches

\* lines 845-857: the hexpatch attempts of the kernel stage
HexpatchAttempts(wk) ==
    IF wk.env.LEGACYSAR = "true" THEN BasePatches + 1 ELSE BasePatches

\* line 867: the device-tree candidates, in order
DtList == << "dtb", "kernel_dtb", "extra" >>

\* the command the worker is about to run, None when its pc runs none
CommandAt(wk) ==
    CASE wk.pc = "unpack" -> "unpack"
      [] wk.pc = "cpio_test" -> "cpio test"
      [] wk.pc = "cpio_restore" -> "cpio restore"
      [] wk.pc = "compress" /\ NextCompress(wk, wk.idx) <= Len(CompressList)
            -> "compress"
      [] wk.pc = "cpio_patch" -> "cpio patch"
      [] wk.pc = "hexpatch" -> "hexpatch"
      [] wk.pc = "dtb_test" -> "dtb test"
      [] wk.pc = "dtb_patch" -> "dtb patch"
      [] wk.pc = "repack" -> "repack"
      [] OTHER -> None

\* the cwd the command is given: none for the compressions (line 766)
CwdAt(wk) == IF wk.pc = "compress" THEN 0 ELSE temp_dir

\* what a toolkit process that exits 0 can have written
OutputsAt(wk) ==
    CASE wk.pc = "unpack" -> UnpackResults
      [] wk.pc = "compress" -> {{XzName(CompressList[NextCompress(wk, wk.idx)])}}
      [] wk.pc = "repack" -> {{"new-boot.img"}, {}}
      [] OTHER -> {{}}

AllOutputs ==
    UnpackResults \cup {{XzName(CompressList[i])} : i \in 1..Len(CompressList)}
        \cup {{"new-boot.img"}, {}}

\* lines 718-725
AfterUnpack(wk, result) ==
    LET got == [wk EXCEPT !.result = result]
    IN IF result # 0 THEN Raise(got, "Failed to unpack boot image!")
       ELSE [got EXCEPT !.pc = "ramdisk"]

\* lines 736 and 742: shutil.copy2(ramdisk_path, ramdisk_path + ".orig")
BackupRamdisk(wk, fls) ==
    LET copied == Copy2(<<temp_dir, "ramdisk.cpio">>,
                        <<temp_dir, "ramdisk.cpio.orig">>, fls)
    IN IF copied = "ok" THEN [wk EXCEPT !.pc = "sha1"] ELSE Raise(wk, copied)

\* the ramdisk test with every nonzero exit code taken as "already patched"
AfterCpioTestLax(wk, result, fls) ==
    LET tested == [wk EXCEPT !.result = result]
    IN IF result = 0 THEN BackupRamdisk(tested, fls)
       ELSE [tested EXCEPT !.pc = "cpio_restore"]

\* lines 734-744: the exit code of the ramdisk test
AfterCpioTest(wk, result, fls) ==
    LET tested == [wk EXCEPT !.result = result]
    IN IF result = 0 THEN BackupRamdisk(tested, fls)
       ELSE IF result = 1 THEN [tested EXCEPT !.pc = "cpio_restore"]
       ELSE Raise(tested, "Boot image patched by unsupported programs!")

\* lines 739-742: the exit code of the restore is not looked at
AfterCpioRestore(wk, result, fls) == BackupRamdisk(wk, fls)

\* lines 761-773: the exit code of a compression is not looked at
AfterCompress(wk, result) ==
    [wk EXCEPT !.idx = NextCompress(wk, wk.idx) + 1]

\* the ramdisk patch with its exit code not looked at
AfterCpioPatchUnchecked(wk, result) ==
    [wk EXCEPT !.result = result, !.pc = "kernel"]

\* lines 824-827
AfterCpioPatch(wk, result) ==
    LET got == [wk EXCEPT !.result = result]
    IN IF result # 0 THEN Raise(got, "Failed to patch ramdisk!")
       ELSE [got EXCEPT !.pc = "kernel"]

\* lines 845-860: one hexpatch attempt
AfterHexpatch(wk, result) ==
    [wk EXCEPT !.result = result,
               !.kernel_patched = @ \/ result = 0,
               !.idx = @ + 1,
               !.pc = IF wk.idx + 1 > HexpatchAttempts(wk)
                      THEN "kernel_done" ELSE "hexpatch"]

\* a dtb test whose nonzero exit code ends the run
AfterDtbTestStrict(wk, result) ==
    IF result # 0
    THEN Raise([wk EXCEPT !.result = result], "Failed to test dtb!")
    ELSE [wk EXCEPT !.result = result, !.pc = "dtb_patch"]

\* lines 873-877: a failed test is only logged
AfterDtbTest(wk, result) == [wk EXCEPT !.result = result, !.pc = "dtb_patch"]

\* lines 879-883: a failed patch is not even logged
AfterDtbPatch(wk, result) ==
    [wk EXCEPT !.result = result, !.idx = @ + 1, !.pc = "dtb"]

\* lines 888-897
AfterRepack(wk, result, fls) ==
    LET got == [wk EXCEPT !.result = result]
    IN IF result # 0 THEN Raise(got, "Failed to repack boot image!")
       ELSE IF <<temp_dir, "new-boot.img">> \notin fls
       THEN Raise(got, "Output boot image not found!")
       ELSE [got EXCEPT !.pc = "finalize"]

\* the worker after run_command returned result, the files being fls
AfterCommand(wk, result, fls) ==
    CASE wk.pc = "unpack" -> AfterUnpack(wk, result)
      [] wk.pc = "cpio_test" -> AfterCpioTest(wk, result, fls)
      [] wk.pc = "cpio_restore" -> AfterCpioRestore(wk, result, fls)
      [] wk.pc = "compress" -> AfterCompress(wk, result)
      [] wk.pc = "cpio_patch" -> AfterCpioPatch(wk, result)
      [] wk.pc = "hexpatch" -> AfterHexpatch(wk, result)
      [] wk.pc = "dtb_test" -> AfterDtbTest(wk, result)
      [] wk.pc = "dtb_patch" -> AfterDtbPatch(wk, result)
      [] wk.pc = "repack" -> AfterRepack(wk, result, fls)

\* the files the worker itself writes once run_command returned result:
\* the ramdisk backup of lines 736 and 742
WorkerWrites(wk, result, fls) ==
    IF /\ (wk.pc = "cpio_test" /\ result = 0) \/ wk.pc = "cpio_restore"
       /\ Copy2(<<temp_dir, "ramdisk.cpio">>,
                <<temp_dir, "ramdisk.cpio.orig">>, fls) = "ok"
    THEN {<<temp_dir, "ramdisk.cpio.orig">>}
    ELSE {}

\* the files a toolkit process that exits with result has written
ToolkitWrites(result, out) ==
    IF result # 0 THEN {} ELSE Written(temp_dir, out)

\* run_command has been called: the command is on the record
Called(wk) ==
    [wk EXCEPT !.invoked = Append(@, CommandAt(wk)),
               !.hexpatched = IF CommandAt(wk) = "hexpatch"
                              THEN Append(@, PatchAt(wk.idx)) ELSE @]

\* lines 960-966: Popen has no env argument, the process gets os.environ
ProcessEnv(wk) == Environ

\* lines 960-966: Popen starts the process
Popen(w) ==
    LET wk == worker[w] IN
    /\ CommandAt(wk) # None
    /\ wk.waiting = 0
    /\ CwdAt(wk) = 0 \/ CwdAt(wk) \in tmp
    /\ worker' = [worker EXCEPT ![w] =
           [Called(wk) EXCEPT !.waiting = Len(wk.invoked) + 1,
                              !.procs = @ \cup {Len(wk.invoked) + 1},
                              !.proc_env = ProcessEnv(wk)]]
    /\ UNCHANGED WorkerOnly

\* lines 975-977: Popen raises (no executable, no such cwd): -1, no process
PopenFails(w) ==
    LET wk == worker[w] IN
    /\ CommandAt(wk) # None
    /\ wk.waiting = 0
    /\ worker' = [worker EXCEPT ![w] = AfterCommand(Called(wk), -1, files)]
    /\ files' = files \cup WorkerWrites(wk, -1, files)
    /\ UNCHANGED << gui, is_patching, temp_dir, dialog, tmp, edits, faults >>

\* what run_command returns once the process has been waited for
Waited(wk) == [wk EXCEPT !.waiting = 0, !.procs = @ \ {wk.waiting}]

\* lines 968-973: the output ends, the process is waited for, its code returned
ProcessExit(w, result, out) ==
    LET wk == worker[w]
        fls == files \cup ToolkitWrites(result, out)
    IN
    /\ wk.waiting # 0
    /\ out \in OutputsAt(wk)
    /\ files' = fls \cup WorkerWrites(wk, result, fls)
    /\ worker' = [worker EXCEPT ![w] = AfterCommand(Waited(wk), result, fls)]
    /\ UNCHANGED << gui, is_patching, temp_dir, dialog, tmp, edits, faults >>

\* lines 968-977: reading or logging a line raises; run_command returns -1
\* and the process it started is left running
StreamFault(w) ==
    LET wk == worker[w] IN
    /\ wk.waiting # 0
    /\ faults < MaxFaults
    /\ faults' = faults + 1
    /\ files' = files \cup WorkerWrites(wk, -1, files)
    /\ worker' = [worker EXCEPT ![w] =
           AfterCommand([wk EXCEPT !.waiting = 0], -1, files)]
    /\ UNCHANGED << gui, is_patching, temp_dir, dialog, tmp, edits >>

\* a process nobody waits for ends
OrphanExit(w) ==
    /\ \E c \in worker[w].procs \ {worker[w].waiting} :
           worker' = [worker EXCEPT ![w].procs = @ \ {c}]
    /\ UNCHANGED WorkerOnly

(***************************************************************************)
(* _patch_worker, the stages between the commands.                         *)
(***************************************************************************)
\* lines 727-729 and 745-746: is there a ramdisk to classify
CheckRamdisk(w) ==
    /\ worker[w].pc = "ramdisk"
    /\ worker' = [worker EXCEPT ![w] =
           IF <<temp_dir, "ramdisk.cpio">> \in files
           THEN [@ EXCEPT !.ramdisk = "present", !.pc = "cpio_test"]
           ELSE [@ EXCEPT !.ramdisk = "absent", !.pc = "sha1"]]
    /\ UNCHANGED WorkerOnly

\* lines 748-755, run_command_output: the digest, or "" when the query fails
GetSha1(w) ==
    /\ worker[w].pc = "sha1"
    /\ \E sha1_output \in {"", "da39a3ee"} :
           worker' = [worker EXCEPT ![w] =
               [@ EXCEPT !.sha1 = sha1_output,
                         !.invoked = Append(@, "sha1"),
                         !.idx = 1,
                         !.pc = "compress"]]
    /\ UNCHANGED WorkerOnly

\* lines 761-773: nothing is left to compress
CompressDone(w) ==
    /\ worker[w].pc = "compress"
    /\ worker[w].waiting = 0
    /\ NextCompress(worker[w], worker[w].idx) > Len(CompressList)
    /\ worker' = [worker EXCEPT ![w].pc = "magiskinit"]
    /\ UNCHANGED WorkerOnly

\* lines 775-778: the extracted init binary is copied to <temp_dir>/magiskinit
CreateMagiskinit(w) ==
    LET wk == worker[w]
        dst == <<temp_dir, "magiskinit">>
    IN
    /\ wk.pc = "magiskinit"
    /\ IF "magiskinit" \in DOMAIN wk.needed_files
       THEN LET src == wk.needed_files["magiskinit"] IN
            IF Copy2(src, dst, files) = "ok"
            THEN /\ files' = files \cup {dst}
                 /\ worker' = [worker EXCEPT ![w].pc = "config"]
            ELSE /\ files' = files
                 /\ worker' = [worker EXCEPT ![w] =
                        Raise(wk, Copy2(src, dst, files))]
       ELSE /\ files' = files
            /\ worker' = [worker EXCEPT ![w].pc = "config"]
    /\ UNCHANGED << gui, is_patching, temp_dir, dialog, tmp, edits, faults >>

\* a config file with a SHA1 line whatever the digest
ConfigLinesWithSha1(env, sha1) ==
    << "KEEPVERITY=" \o env.KEEPVERITY,
       "KEEPFORCEENCRYPT=" \o env.KEEPFORCEENCRYPT,
       "RECOVERYMODE=" \o env.RECOVERYMODE,
       "PATCHVBMETAFLAG=" \o env.PATCHVBMETAFLAG,
       "LEGACYSAR=" \o env.LEGACYSAR,
       "SHA1=" \o sha1 >>

(***************************************************************************)
(* _patch_worker, from the config file to the saved image.                 *)
(***************************************************************************)
\* lines 783-789: the lines of the config file
ConfigLines(env, sha1) ==
    << "KEEPVERITY=" \o env.KEEPVERITY,
       "KEEPFORCEENCRYPT=" \o env.KEEPFORCEENCRYPT,
       "RECOVERYMODE=" \o env.RECOVERYMODE,
       "PATCHVBMETAFLAG=" \o env.PATCHVBMETAFLAG,
       "LEGACYSAR=" \o env.LEGACYSAR >>
    \o (IF sha1 # "" THEN << "SHA1=" \o sha1 >> ELSE << >>)

\* lines 780-789: the config file is written
WriteConfig(w) ==
    LET wk == worker[w] IN
    /\ wk.pc = "config"
    /\ IF temp_dir \in tmp
       THEN /\ files' = files \cup {<<temp_dir, "config">>}
            /\ worker' = [worker EXCEPT ![w] =
                   [wk EXCEPT !.config = ConfigLines(wk.env, wk.sha1),
                              !.pc = "patch_ramdisk"]]
       ELSE /\ files' = files
            /\ worker' = [worker EXCEPT ![w] = Raise(wk, "FileNotFoundError")]
    /\ UNCHANGED << gui, is_patching, temp_dir, dialog, tmp, edits, faults >>

\* lines 805-814: an add command for every compressed file that exists
RECURSIVE AddCommands(_)
AddCommands(i) ==
    IF i = 0 THEN << >>
    ELSE AddCommands(i - 1) \o
         (IF <<temp_dir, XzName(CompressList[i])>> \in files
          THEN << "add 0644 overlay.d/sbin/" \o XzName(CompressList[i])
                      \o " " \o XzName(CompressList[i]) >>
          ELSE << >>)

\* lines 797-822: the arguments after magiskboot cpio ramdisk.cpio
CpioCommands ==
    << "add 0750 init magiskinit", "mkdir 0750 overlay.d",
       "mkdir 0750 overlay.d/sbin" >>
    \o AddCommands(Len(CompressList))
    \o << "patch", "backup ramdisk.cpio.orig", "mkdir 000 .backup",
          "add 000 .backup/.magisk config" >>

\* lines 791-822: the ramdisk is patched only if there is one
BuildCpioCommands(w) ==
    /\ worker[w].pc = "patch_ramdisk"
    /\ worker' = [worker EXCEPT ![w] =
           IF <<temp_dir, "ramdisk.cpio">> \in files
           THEN [@ EXCEPT !.cpio_commands = CpioCommands, !.pc = "cpio_patch"]
           ELSE [@ EXCEPT !.pc = "kernel"]]
    /\ UNCHANGED WorkerOnly

\* lines 829-835: the kernel is patched only if there is one
CheckKernel(w) ==
    /\ worker[w].pc = "kernel"
    /\ worker' = [worker EXCEPT ![w] =
           IF <<temp_dir, "kernel">> \in files
           THEN [@ EXCEPT !.kernel_patched = FALSE, !.idx = 1, !.pc = "hexpatch"]
           ELSE [@ EXCEPT !.idx = 1, !.pc = "dtb"]]
    /\ UNCHANGED WorkerOnly

\* the kernel stage without the removal of lines 862-864
AlwaysKeepsKernel(wk) == TRUE

\* line 862: the kernel file is kept when a patch applied
KeepsKernel(wk) == wk.kernel_patched

\* lines 862-864: an unpatched kernel is removed
FinishKernel(w) ==
    LET wk == worker[w]
        kernel_path == <<temp_dir, "kernel">>
    IN
    /\ wk.pc = "kernel_done"
    /\ IF KeepsKernel(wk)
       THEN /\ files' = files
            /\ worker' = [worker EXCEPT ![w] = [wk EXCEPT !.idx = 1, !.pc = "dtb"]]
       ELSE IF kernel_path \in files
       THEN /\ files' = files \ {kernel_path}
            /\ worker' = [worker EXCEPT ![w] = [wk EXCEPT !.idx = 1, !.pc = "dtb"]]
       ELSE /\ files' = files
            /\ worker' = [worker EXCEPT ![w] = Raise(wk, "FileNotFoundError")]
    /\ UNCHANGED << gui, is_patching, temp_dir, dialog, tmp, edits, faults >>

\* lines 866-869: the next candidate, from position i on, that exists
RECURSIVE NextDt(_)
NextDt(i) ==
    IF i > Len(DtList) THEN i
    ELSE IF <<temp_dir, DtList[i]>> \in files THEN i
    ELSE NextDt(i + 1)

\* lines 866-871: the loop over the device-tree candidates
CheckDt(w) ==
    /\ worker[w].pc = "dtb"
    /\ worker' = [worker EXCEPT ![w] =
           IF NextDt(worker[w].idx) > Len(DtList)
           THEN [@ EXCEPT !.pc = "repack"]
           ELSE [@ EXCEPT !.idx = NextDt(worker[w].idx), !.pc = "dtb_test"]]
    /\ UNCHANGED WorkerOnly

\* lines 899-931: success is reported and the image saved where the user says
Finalize(w, save_path) ==
    LET wk == worker[w]
        reported == [wk EXCEPT !.outcome = "success"]
    IN
    /\ wk.pc = "finalize"
    /\ worker' = [worker EXCEPT ![w] =
           IF <<temp_dir, "new-boot.img">> \notin files
           THEN Raise(wk, "FileNotFoundError")
           ELSE IF save_path = None
           THEN [reported EXCEPT !.pc = "cleanup"]
           ELSE [reported EXCEPT !.saved = TRUE, !.pc = "cleanup"]]
    /\ UNCHANGED WorkerOnly

(***************************************************************************)
(* _patch_worker, the handler and the finally block.                       *)
(***************************************************************************)
\* lines 933-935: the error is logged and shown
HandleError(w) ==
    /\ worker[w].pc = "except"
    /\ worker' = [worker EXCEPT ![w].pc = "cleanup", ![w].outcome = "failed"]
    /\ UNCHANGED WorkerOnly

\* lines 937-944: rmtree of self.temp_dir; what it raises is swallowed, and
\* the directory is then left behind (which of its files are left with it is
\* not followed)
Cleanup(w) ==
    /\ worker[w].pc = "cleanup"
    /\ worker' = [worker EXCEPT ![w].pc = "reset"]
    /\ IF temp_dir # 0 /\ temp_dir \in tmp
       THEN /\ files' = files \ FilesOf(temp_dir)
            /\ \/ /\ tmp' = tmp \ {temp_dir}
                  /\ faults' = faults
               \/ /\ faults < MaxFaults
                  /\ faults' = faults + 1
                  /\ tmp' = tmp
       ELSE UNCHANGED << tmp, files, faults >>
    /\ UNCHANGED << gui, is_patching, temp_dir, dialog, edits >>

\* lines 946-949: the widgets are reset, then the flag; the thread ends and
\* its locals go with it (what stays in the slot is for the record)
ResetState(w) ==
    /\ worker[w].pc = "reset"
    /\ is_patching' = FALSE
    /\ worker' = [worker EXCEPT ![w] =
           [IdleWorker EXCEPT !.pc = IF worker[w].dying THEN "dead" ELSE "done",
                              !.created = worker[w].created,
                              !.outcome = worker[w].outcome]]
    /\ UNCHANGED << gui, temp_dir, dialog, tmp, files, edits, faults >>

\* where a statement of the worker that raises sends it: out of the thread
\* before the try block and in the finally block (after the rmtree, whose
\* exceptions are swallowed), to the handler inside the try block, to the
\* finally block inside the handler
AfterFault(wk) ==
    CASE wk.pc \in {"start", "reset"} -> [wk EXCEPT !.pc = "dead"]
      [] wk.pc \in TryPcs -> Raise(wk, "fault")
      [] wk.pc = "except" ->
             [wk EXCEPT !.pc = "cleanup", !.dying = TRUE, !.outcome = "failed"]

\* a widget or file call of the worker raises
Fault(w) ==
    /\ worker[w].pc \in {"start", "reset", "except"} \cup TryPcs
    /\ worker[w].waiting = 0
    /\ faults < MaxFaults
    /\ faults' = faults + 1
    /\ worker' = [worker EXCEPT ![w] =
           IF worker[w].pc \in {"start", "reset"}
           THEN [IdleWorker EXCEPT !.pc = "dead",
                                   !.created = worker[w].created,
                                   !.outcome = worker[w].outcome]
           ELSE AfterFault(worker[w])]
    /\ UNCHANGED << gui, is_patching, temp_dir, dialog, tmp, files, edits >>

(***************************************************************************)
(* The program.                                                            *)
(***************************************************************************)
Next ==
    \/ select_boot_image
    \/ \E filename \in PackageNames : select_magisk_apk(filename)
    \/ \E value \in Architectures : SelectArchitecture(value)
    \/ \E o \in ToggledOptions : ToggleOption(o)
    \/ patch_boot_image
    \/ \E result \in BOOLEAN : ConfirmPatch(result)
    \/ clean_temp_files
    \/ \E w \in Workers :
        \/ WorkerStart(w)
        \/ StageWorkingDir(w)
        \/ ExtractPayload(w)
        \/ CaptureEnv(w)
        \/ Popen(w)
        \/ PopenFails(w)
        \/ \E result \in ExitCodes, out \in AllOutputs : ProcessExit(w, result, out)
        \/ StreamFault(w)
        \/ OrphanExit(w)
        \/ CheckRamdisk(w)
        \/ GetSha1(w)
        \/ CompressDone(w)
        \/ CreateMagiskinit(w)
        \/ HandleError(w)
        \/ Cleanup(w)
        \/ ResetState(w)
        \/ Fault(w)

Spec == Init /\ [][Next]_vars

(***************************************************************************)
(* The stages after line 778.  No run of the program gets there:           *)
(* CreateMagiskinit raises in every run that reaches it.  StageSpec runs   *)
(* them from the states a run is in at line 780 when that copy is taken    *)
(* as done: the payload of old.apk extracted for arm64-v8a, the image      *)
(* unpacked, the ramdisk classified, the payload compressed.               *)
(***************************************************************************)
\* the option settings a staged run starts from
StageOptions ==
    { DefaultOptions, [DefaultOptions EXCEPT !["legacy_sar"] = TRUE] }

\* the commands lines 718-773 have invoked by then
StageInvoked(out, result) ==
    << "unpack" >>
    \o (IF "ramdisk.cpio" \in out THEN << "cpio test" >> ELSE << >>)
    \o (IF "ramdisk.cpio" \in out /\ result = 1 THEN << "cpio restore" >> ELSE << >>)
    \o << "sha1", "compress", "compress" >>

StageWorker(opts, out, result, sha1) ==
    [IdleWorker EXCEPT
        !.pc = "config",
        !.created = 1,
        !.arch = "arm64-v8a",
        !.needed_files = ExtractFromApk(PkgOld, "arm64-v8a", 1),
        !.content = ExtractContent(PkgOld, "arm64-v8a"),
        !.log = ExtractLog(PkgOld, "arm64-v8a"),
        !.env = EnvOf(opts),
        !.ramdisk = IF "ramdisk.cpio" \in out THEN "present" ELSE "absent",
        !.result = IF "ramdisk.cpio" \in out THEN result ELSE 0,
        !.sha1 = sha1,
        !.idx = Len(CompressList) + 1,
        !.invoked = StageInvoked(out, result)]

StageInit ==
    \E opts \in StageOptions, out \in UnpackResults, result \in {0, 1},
       sha1 \in {"", "da39a3ee"}, xz \in SUBSET {"magisk32.xz", "stub.xz"} :
        /\ "ramdisk.cpio" \in out \/ result = 0
        /\ boot_image_file = "boot.img"
        /\ magisk_apk_file = "old.apk"
        /\ apk = PkgOld
        /\ magiskboot_path = "magiskboot"
        /\ arch_var = "arm64-v8a"
        /\ options = opts
        /\ is_patching = TRUE
        /\ temp_dir = 1
        /\ dialog = "none"
        /\ tmp = {1}
        /\ files = {<<1, n>> : n \in
               {"boot.img", "magiskinit"}
               \cup ExtractWritten(PkgOld, "arm64-v8a") \cup out \cup xz
               \cup (IF "ramdisk.cpio" \in out THEN {"ramdisk.cpio.orig"} ELSE {})}
        /\ worker = [w \in Workers |->
               IF w = 1 THEN StageWorker(opts, out, result, sha1) ELSE IdleWorker]
        /\ edits = 0
        /\ faults = 0
        /\ downloader = [d \in Downloaders |-> "idle"]
        /\ downloaded = "none"

\* the selections are left as they are: a run reads them before line 717
StageNext ==
    \/ patch_boot_image
    \/ \E result \in BOOLEAN : ConfirmPatch(result)
    \/ clean_temp_files
    \/ \E w \in Workers :
        \/ WorkerStart(w)
        \/ StageWorkingDir(w)
        \/ ExtractPayload(w)
        \/ CaptureEnv(w)
        \/ Popen(w)
        \/ PopenFails(w)
        \/ \E result \in ExitCodes, out \in AllOutputs : ProcessExit(w, result, out)
        \/ StreamFault(w)
        \/ OrphanExit(w)
        \/ CheckRamdisk(w)
        \/ GetSha1(w)
        \/ CompressDone(w)
        \/ CreateMagiskinit(w)
        \/ WriteConfig(w)
        \/ BuildCpioCommands(w)
        \/ CheckKernel(w)
        \/ FinishKernel(w)
        \/ CheckDt(w)
        \/ \E save_path \in {None, "patched.img"} : Finalize(w, save_path)
        \/ HandleError(w)
        \/ Cleanup(w)
        \/ ResetState(w)
        \/ Fault(w)

StageSpec == StageInit /\ [][StageNext]_vars

(***************************************************************************)
(* The release download: download_latest_magisk and the worker thread it   *)
(* starts, next to the selections of the main thread.                      *)
(***************************************************************************)
DownloadPcs == {"release", "apk", "stream", "select"}

\* a worker thread that is in _download_magisk_worker
Downloading(d) == downloader[d] \in DownloadPcs

\* line 531: the file downloaded to, os.path.join(os.getcwd(), apk_name)
DownloadName == "Magisk.apk"

\* what zipfile reads at the downloaded file
DownloadedPackage(content) ==
    IF content = "whole" THEN PackageAt(DownloadName) ELSE PkgBad

\* what zipfile reads at the selected path once the file downloaded to holds
\* content
ApkWith(content) ==
    IF magisk_apk_file = DownloadName THEN DownloadedPackage(content) ELSE apk

DownloadOnly ==
    << boot_image_file, magiskboot_path, arch_var, options, is_patching,
       temp_dir, dialog, tmp, files, worker, edits, faults >>

\* lines 486-493: the button starts a daemon thread, whatever else runs
download_latest_magisk ==
    /\ dialog = "none"
    /\ \E d \in Downloaders :
           /\ ~Downloading(d)
           /\ \A x \in Downloaders : x < d => Downloading(x)
           /\ downloader' = [downloader EXCEPT ![d] = "release"]
    /\ UNCHANGED << magisk_apk_file, apk, downloaded, DownloadOnly >>

\* lines 497-519: the release is asked for; an exception ends the worker in
\* the handler of line 554, a release without Magisk*.apk at line 517
FetchRelease(d, found) ==
    /\ downloader[d] = "release"
    /\ downloader' = [downloader EXCEPT ![d] =
           CASE found = "asset" -> "apk"
             [] found = "none" -> "done"
             [] OTHER -> "failed"]
    /\ UNCHANGED << magisk_apk_file, apk, downloaded, DownloadOnly >>

\* lines 521-533: the asset is asked for and the file opened with 'wb',
\* which empties it; an exception before that leaves the file alone
DownloadApk(d, ok) ==
    /\ downloader[d] = "apk"
    /\ downloader' = [downloader EXCEPT ![d] = IF ok THEN "stream" ELSE "failed"]
    /\ downloaded' = IF ok THEN "partial" ELSE downloaded
    /\ apk' = ApkWith(downloaded')
    /\ UNCHANGED << magisk_apk_file, DownloadOnly >>

\* lines 533-545: the chunks are written; the file is whole when the last
\* worker writing it has written them all, partial when one stopped early
StreamApk(d, ok) ==
    /\ downloader[d] = "stream"
    /\ downloader' = [downloader EXCEPT ![d] = IF ok THEN "select" ELSE "failed"]
    /\ downloaded' =
           IF ok /\ \A x \in Downloaders \ {d} : downloader[x] # "stream"
           THEN "whole" ELSE "partial"
    /\ apk' = ApkWith(downloaded')
    /\ UNCHANGED << magisk_apk_file, DownloadOnly >>

\* lines 550-552: the downloaded package becomes the selected one
SelectDownloaded(d) ==
    /\ downloader[d] = "select"
    /\ magisk_apk_file' = DownloadName
    /\ apk' = DownloadedPackage(downloaded)
    /\ downloader' = [downloader EXCEPT ![d] = "done"]
    /\ UNCHANGED << downloaded, DownloadOnly >>

DownloadNext ==
    \/ select_boot_image
    \/ \E filename \in PackageNames : select_magisk_apk(filename)
    \/ \E value \in Architectures : SelectArchitecture(value)
    \/ download_latest_magisk
    \/ \E d \in Downloaders :
           \/ \E found \in {"asset", "none", "error"} : FetchRelease(d, found)
           \/ \E ok \in BOOLEAN : DownloadApk(d, ok)
           \/ \E ok \in BOOLEAN : StreamApk(d, ok)
           \/ SelectDownloaded(d)

DownloadSpec == Init /\ [][DownloadNext]_vars

(***************************************************************************)
(* extract_from_apk on its own: a worker at line 697, the package and the  *)
(* architecture drawn from bounded sets.                                   *)
(***************************************************************************)
\* how many entries a package has
MaxEntries == 3

\* the entries the packages are made of
EntryPool ==
    { Lib("arm64-v8a", "magiskinit"),
      Lib("x86_64", "magiskinit"),
      Lib("arm64-v8a", "magisk32"),
      Lib("armeabi-v7a", "magisk32"),
      Lib("x86", "magisk32"),
      Lib("arm64-v8a", "magiskboot"),
      Lib("x86_64", "busybox"),
      Entry(<<"lib", "arm64-v8a">>, <<"lib", "lib", "magiskboot", ".so">>),
      Entry(<<"assets", "arm64-v8a">>, <<"lib", "magisk", ".so">>),
      Entry(<<"assets">>, <<"stub.apk">>),
      Entry(<< >>, <<"stub.apk">>) }

\* the version codes they declare
Versions == {NoVersion, 27000, 28000}

Packages ==
    {PkgBad} \cup
    { Package(TRUE, ver, filelist) :
          ver \in Versions,
          filelist \in UNION { [1..n -> EntryPool] : n \in 0..MaxEntries } }

ExtractInit ==
    /\ boot_image_file = "boot.img"
    /\ magisk_apk_file = "Magisk.apk"
    /\ apk \in Packages
    /\ magiskboot_path = "magiskboot"
    /\ arch_var \in Architectures
    /\ options = DefaultOptions
    /\ is_patching = TRUE
    /\ temp_dir = 1
    /\ dialog = "none"
    /\ tmp = {1}
    /\ files = {<<1, "boot.img">>}
    /\ worker = [w \in Workers |->
           IF w = 1 THEN [IdleWorker EXCEPT !.pc = "extract", !.created = 1]
           ELSE IdleWorker]
    /\ edits = 0
    /\ faults = 0
    /\ downloader = [d \in Downloaders |-> "idle"]
    /\ downloaded = "none"

ExtractNext == \E w \in Workers : ExtractPayload(w)

ExtractSpec == ExtractInit /\ [][ExtractNext]_vars

(***************************************************************************)
(* Properties.  What a run did is read from its worker record while the    *)
(* thread lives: the record is cleared when the thread ends.               *)
(***************************************************************************)
Last(s) == s[Len(s)]

\* the pc values after the try block has been left by an exception, or at all
EndingPcs == {"except", "cleanup", "reset"}

\* run_command, called for command c, returns in this step
Returned(w, c) ==
    /\ worker'[w].waiting = 0
    /\ Len(worker'[w].invoked) > 0
    /\ worker[w].waiting # 0 \/ Len(worker'[w].invoked) > Len(worker[w].invoked)
    /\ Last(worker'[w].invoked) = c

\* how many times the run has invoked command c
Count(wk, c) == Cardinality({i \in 1..Len(wk.invoked) : wk.invoked[i] = c})

\* the exceptions a run meets from outside its stages: a statement that
\* raises unexpectedly, the working directory removed under it
Outside == {"fault", "FileNotFoundError"}

\* the exceptions the worker raises itself for an exit code or a missing output
StageFailures ==
    {"Failed to unpack boot image!",
     "Boot image patched by unsupported programs!",
     "Failed to patch ramdisk!",
     "Failed to repack boot image!",
     "Output boot image not found!"}

ExtractionFailed == "Failed to extract necessary files from APK"

\* C1: at most one _patch_worker executes at any time: while one does,
\* is_patching is set, and no request made then gets as far as the
\* confirmation dialog, so none starts a second worker.
C1_OneRunAtATime ==
    /\ Cardinality({w \in Workers : Live(w)}) <= 1
    /\ (\E w \in Workers : Live(w)) => is_patching
    /\ dialog = "confirm" => ~is_patching

\* a run in the middle of its stages, the flag set
C1_Witness ==
    /\ is_patching
    /\ dialog = "none"
    /\ \E w \in Workers : worker[w].pc = "compress" /\ worker[w].waiting # 0

\* C2: once a run has ended, however it ended, the working directory it
\* created no longer exists.
C2_WorkingDirRemoved ==
    \A w \in Workers :
        worker[w].pc \in {"done", "dead"} /\ worker[w].created # 0
            => worker[w].created \notin tmp

\* C3: every run that was started sets is_patching back to False: the flag
\* is never left set with no worker thread alive to reset it.
C3_FlagReset == is_patching => \E w \in Workers : Live(w)

\* C4: a run whose extraction returned a payload set raises no error of its
\* own between extraction and repack: the handler only ever sees the stage
\* failures the exit codes stand for, or an exception from outside.
C4_StagesPassWithoutError ==
    \A w \in Workers :
        worker[w].pc = "except" /\ DOMAIN worker[w].needed_files # {}
            => worker[w].error \in StageFailures \cup Outside

\* the place of each command in the stage order
StageRank(c) ==
    CASE c = "unpack" -> 1
      [] c = "cpio test" -> 2
      [] c = "cpio restore" -> 3
      [] c = "sha1" -> 4
      [] c = "compress" -> 5
      [] c = "cpio patch" -> 6
      [] c = "hexpatch" -> 7
      [] c \in {"dtb test", "dtb patch"} -> 8
      [] c = "repack" -> 9

InStageOrder(invoked) ==
    \A i, j \in 1..Len(invoked) :
        i < j => StageRank(invoked[i]) <= StageRank(invoked[j])

\* the commands of a run come in the stage order
StagesInOrder == \A w \in Workers : InStageOrder(worker[w].invoked)

\* C5: within a run the toolkit commands are invoked one at a time and in
\* the stage order: at most one toolkit process of the run is alive, and no
\* command of a later stage comes before one of an earlier stage.
C5_OneCommandAtATime ==
    \A w \in Workers :
        /\ Cardinality(worker[w].procs) <= 1
        /\ InStageOrder(worker[w].invoked)

\* C6: a run whose extraction fails (no magiskinit, no such architecture,
\* unreadable archive) aborts there: a worker past the extraction, or one
\* that has invoked a toolkit command, holds a payload set with magiskinit,
\* and the run that raised the extraction failure has invoked no command.
C6_ExtractionFailureAborts ==
    \A w \in Workers :
        LET wk == worker[w] IN
        /\ wk.pc \in TryPcs \ {"begin", "extract"} \/ wk.invoked # << >>
               => "magiskinit" \in DOMAIN wk.needed_files
        /\ wk.error = ExtractionFailed
               => /\ wk.invoked = << >>
                  /\ wk.procs = {}
                  /\ wk.pc \in EndingPcs

\* an extraction that failed, its run on the way out
C6_Witness ==
    \E w \in Workers :
        /\ worker[w].error = ExtractionFailed
        /\ worker[w].pc = "cleanup"
        /\ worker[w].outcome = "failed"

\* the commands whose nonzero exit code ends the run
MandatoryCommands == {"unpack", "cpio patch", "repack"}

\* the run-level part of C7, state by state
MandatoryFailureEndsRun ==
    \A w \in Workers :
        LET wk == worker[w] IN
        /\ ( /\ wk.waiting = 0
             /\ Len(wk.invoked) > 0
             /\ Last(wk.invoked) \in MandatoryCommands
             /\ wk.result # 0 )
               => /\ wk.pc \in EndingPcs
                  /\ wk.pc # "except" => wk.outcome = "failed"
                  /\ ~wk.saved
        /\ wk.error = "Output boot image not found!"
               => /\ wk.pc \in EndingPcs
                  /\ Last(wk.invoked) = "repack"
                  /\ wk.pc # "except" => wk.outcome = "failed"
                  /\ ~wk.saved
        /\ Live(w) /\ (wk.outcome = "success" \/ wk.saved)
               => /\ Last(wk.invoked) = "repack"
                  /\ wk.result = 0
                  /\ wk.error = None

\* the run goes on from repack only with the output image in place
RepackNeedsOutput ==
    \A w \in Workers :
        worker[w].pc = "repack" /\ worker'[w].pc = "finalize"
            => <<temp_dir, "new-boot.img">> \in files'

\* C7: when unpack, the ramdisk patch or repack exits nonzero, or repack
\* exits 0 and leaves no new-boot.img, the run ends in the failure outcome:
\* the failed command is the last one it invoked, no image is saved and
\* success is not reported.
C7_MandatoryStageFailure ==
    /\ []MandatoryFailureEndsRun
    /\ [][RepackNeedsOutput]_vars

\* repack exited 0 without its output, and the run failed
C7_Witness ==
    \E w \in Workers :
        /\ worker[w].error = "Output boot image not found!"
        /\ worker[w].result = 0
        /\ worker[w].pc = "cleanup"
        /\ worker[w].outcome = "failed"

\* the ramdisk backup of lines 736 and 742 is made and the run goes on, or
\* the ramdisk is gone and the copy raises
BackedUp(w) ==
    \/ /\ worker'[w].pc = "sha1"
       /\ <<temp_dir, "ramdisk.cpio.orig">> \in files'
    \/ /\ worker'[w].pc = "except"
       /\ worker'[w].error = "FileNotFoundError"
       /\ <<temp_dir, "ramdisk.cpio">> \notin files'

\* what the worker does when the ramdisk test, or the restore, returns
RamdiskClassified ==
    \A w \in Workers :
        /\ Returned(w, "cpio test") =>
               /\ worker[w].ramdisk = "present"
               /\ worker'[w].result = 0 => BackedUp(w)
               /\ worker'[w].result = 1 => worker'[w].pc = "cpio_restore"
               /\ worker'[w].result \notin {0, 1} =>
                      /\ worker'[w].pc = "except"
                      /\ worker'[w].error = "Boot image patched by unsupported programs!"
                      /\ files' = files
        /\ Returned(w, "cpio restore") =>
               /\ worker[w].result = 1
               /\ BackedUp(w)

\* the stages after the classification are reached only through it
ClassifiedBefore ==
    \A w \in Workers :
        LET wk == worker[w] IN
        wk.pc \in {"sha1", "compress", "magiskinit"} /\ wk.ramdisk = "present"
            => /\ wk.result \in {0, 1}
               /\ wk.result = 0 => Count(wk, "cpio restore") = 0
               /\ wk.result = 1 => Count(wk, "cpio restore") = 1

\* C8: with a ramdisk after unpack, exit code 0 of the cpio test makes the
\* backup ramdisk.cpio.orig, 1 invokes the restore and then makes the
\* backup, any other code (-1 of a failed launch too) raises the fatal
\* error, and no later stage is reached otherwise.
C8_RamdiskClassification ==
    /\ []ClassifiedBefore
    /\ [][RamdiskClassified]_vars

\* an already patched ramdisk: restored, then backed up
C8_Witness ==
    \E w \in Workers :
        /\ worker[w].pc = "sha1"
        /\ worker[w].result = 1
        /\ Last(worker[w].invoked) = "cpio restore"
        /\ <<temp_dir, "ramdisk.cpio.orig">> \in files

\* C9: a run whose unpack left no ramdisk invokes neither the cpio test nor
\* the cpio patch, raises no error on the way, and goes on to the kernel
\* and device-tree stages and to repack: the handler sees it only for a
\* failed repack or an exception from outside.
C9_NoRamdiskGoesOn ==
    \A w \in Workers :
        LET wk == worker[w] IN
        wk.ramdisk = "absent"
            => /\ Count(wk, "cpio test") = 0
               /\ Count(wk, "cpio patch") = 0
               /\ wk.pc = "except" =>
                      wk.error \in {"Failed to repack boot image!",
                                    "Output boot image not found!"} \cup Outside

\* the pc values between the kernel stage and the return of repack
AfterKernelPcs == {"dtb", "dtb_test", "dtb_patch", "repack"}

\* the kernel stage ran (there was a kernel file) and is over
KernelStageOver(wk) == wk.pc \in AfterKernelPcs /\ Count(wk, "hexpatch") > 0

\* the kernel file is there after the stage exactly when a patch applied
KernelKeptIffPatched ==
    \A w \in Workers :
        LET wk == worker[w] IN
        KernelStageOver(wk)
            => /\ Count(wk, "hexpatch") =
                      IF wk.env.LEGACYSAR = "true" THEN 4 ELSE 3
               /\ ~wk.kernel_patched => <<temp_dir, "kernel">> \notin files
               /\ wk.kernel_patched /\ temp_dir \in tmp
                      => <<temp_dir, "kernel">> \in files

\* a patch applied exactly when a hexpatch attempt exited 0
PatchedIffExitZero ==
    \A w \in Workers :
        Returned(w, "hexpatch") =>
            worker'[w].kernel_patched =
                (worker[w].kernel_patched \/ worker'[w].result = 0)

\* C10: with a kernel file at the kernel stage, the file is deleted if and
\* only if none of the hexpatch attempts (three, and the legacy-SAR one
\* when enabled) exited 0; if one did, the file is still there at repack.
C10_KernelRemovedIffUnpatched ==
    /\ []KernelKeptIffPatched
    /\ [][PatchedIffExitZero]_vars

\* four attempts, none exited 0: the kernel file is gone at repack
C10_Witness ==
    \E w \in Workers :
        /\ worker[w].pc = "repack"
        /\ Count(worker[w], "hexpatch") = 4
        /\ ~worker[w].kernel_patched
        /\ temp_dir \in tmp
        /\ <<temp_dir, "kernel">> \notin files

\* the patterns of a whole kernel stage under env
AllPatches(env) ==
    << "49010054", "821B8012", "70726F63" >>
    \o (IF env.LEGACYSAR = "true" THEN << "736B6970" >> ELSE << >>)

\* C11: with a kernel file, the kernel stage tries the three base patterns
\* in their order, and after them the legacy-SAR pattern exactly when
\* legacy SAR is enabled, whatever the attempts exit with.
C11_HexpatchAttempts ==
    \A w \in Workers :
        LET wk == worker[w]
            all == AllPatches(wk.env)
        IN
        /\ wk.pc = "hexpatch" =>
               /\ Len(wk.hexpatched) <= Len(all)
               /\ wk.hexpatched = SubSeq(all, 1, Len(wk.hexpatched))
               /\ wk.waiting = 0 => Len(wk.hexpatched) < Len(all)
        /\ wk.pc \in {"kernel_done"} \cup AfterKernelPcs /\ wk.hexpatched # << >>
               => wk.hexpatched = all
        /\ Count(wk, "hexpatch") = Len(wk.hexpatched)

\* four attempts with legacy SAR on, an earlier one exited 0 and the last
\* one did not
C11_Witness ==
    \E w \in Workers :
        /\ worker[w].pc = "kernel_done"
        /\ worker[w].env.LEGACYSAR = "true"
        /\ Len(worker[w].hexpatched) = 4
        /\ worker[w].kernel_patched
        /\ worker[w].result # 0

(***************************************************************************)
(* extract_from_apk (checked under ExtractSpec)                            *)
(***************************************************************************)
\* the worker's call of extract_from_apk has returned
Extracted(w) == worker[w].pc \in {"env", "except"}

ParentDir(e) == IF e.dirs = << >> THEN None ELSE e.dirs[Len(e.dirs)]

\* the folder the compatibility rule substitutes from, per requested architecture
CompatFolder(arch) ==
    CASE arch = "arm64-v8a" -> "armeabi-v7a"
      [] arch = "x86_64" -> "x86"
      [] OTHER -> None

Magisk32Lib == <<"lib", "magisk32", ".so">>

\* magisk32 was written although the requested architecture's folder has none
SubstitutionFired(w) ==
    /\ Extracted(w)
    /\ <<temp_dir, "magisk32">> \in files
    /\ \A i \in 1..Len(apk.filelist) :
           ~(ParentDir(apk.filelist[i]) = worker[w].arch
             /\ apk.filelist[i].name = Magisk32Lib)

\* C12: the 32-bit compatibility substitution fires only when the package
\* declares a version code below 28000 and the requested architecture and
\* the folder the file is taken from are (arm64-v8a, armeabi-v7a) or
\* (x86_64, x86).
C12_CompatOnlyForDeclaredOldVersion ==
    \A w \in Workers :
        SubstitutionFired(w) =>
            /\ apk.ver # NoVersion
            /\ apk.ver < CompatThreshold
            /\ CompatFolder(worker[w].arch) # None
            /\ \E i \in 1..Len(apk.filelist) :
                   /\ ParentDir(apk.filelist[i]) = CompatFolder(worker[w].arch)
                   /\ apk.filelist[i].name = Magisk32Lib

\* the logical names of the libraries the extraction leaves out
ExcludedNames == {"magiskboot", "busybox", "magiskpolicy"}

\* C13: whatever the package and the requested architecture, the payload
\* set has no key magiskboot, busybox or magiskpolicy and no file of those
\* names is written to the working directory.
C13_NoExcludedLibraries ==
    \A w \in Workers :
        Extracted(w) =>
            \A n \in ExcludedNames :
                /\ n \notin DOMAIN worker[w].needed_files
                /\ <<temp_dir, n>> \notin files

\* the log has a line that names magiskinit as missing
NamesMissingFile(log) ==
    \E i \in 1..Len(log) :
        /\ log[i].level = "ERROR"
        /\ log[i].msg = "Missing required files"
        /\ "magiskinit" \in log[i].about

\* the log has a line that lists the architectures found
NamesArchitecturesFound(log, found) ==
    \E i \in 1..Len(log) :
        /\ log[i].msg = "Try one of"
        /\ log[i].about = found

\* the extraction returned a payload set with magiskinit, or failed after
\* the diagnostics
PayloadOrDiagnostic(w) ==
    \/ /\ worker[w].pc = "env"
       /\ "magiskinit" \in DOMAIN worker[w].needed_files
       /\ <<temp_dir, "magiskinit">> \in files
    \/ /\ worker[w].pc = "except"
       /\ worker[w].needed_files = NoFiles
       /\ NamesMissingFile(worker[w].log)
       /\ worker[w].arch \notin AvailableLibs(apk.filelist) =>
              NamesArchitecturesFound(worker[w].log, AvailableLibs(apk.filelist))

\* C14 as stated: for every package and each of the four architectures the
\* extraction returns a payload set with magiskinit, or fails after a
\* diagnostic that names the missing file and, when the architecture's folder
\* was not scanned, the architectures found.
C14_AsStated ==
    \A w \in Workers : Extracted(w) => PayloadOrDiagnostic(w)

\* C14, amended: the same for every package the archive reader can read; an
\* unreadable one fails with "Failed to extract from APK" only.  A payload
\* set without magiskinit is never returned, readable or not.
C14_PayloadOrDiagnostic ==
    \A w \in Workers :
        Extracted(w) =>
            /\ apk.readable => PayloadOrDiagnostic(w)
            /\ ~apk.readable =>
                   /\ worker[w].needed_files = NoFiles
                   /\ worker[w].log =
                          << LogLine("ERROR", "Failed to extract from APK", {}) >>
            /\ worker[w].needed_files # NoFiles =>
                   "magiskinit" \in DOMAIN worker[w].needed_files

C14_Witness ==
    \E w \in Workers :
        /\ worker[w].pc = "except"
        /\ apk.readable
        /\ worker[w].arch \notin AvailableLibs(apk.filelist)
        /\ AvailableLibs(apk.filelist) # {}
        /\ NamesMissingFile(worker[w].log)
        /\ NamesArchitecturesFound(worker[w].log, AvailableLibs(apk.filelist))

\* the package has stub.apk at the archive root
HasTopLevelStub(pkg) ==
    \E i \in 1..Len(pkg.filelist) :
        pkg.filelist[i] = Entry(<< >>, <<"stub.apk">>)

\* C15: when the package has a top-level stub.apk, the extraction writes it
\* to the working directory and the payload set it returns has the key
\* stub.apk, whatever the requested architecture.
C15_TopLevelStubExtracted ==
    \A w \in Workers :
        Extracted(w) /\ apk.readable /\ HasTopLevelStub(apk) =>
            /\ <<temp_dir, "stub.apk">> \in files
            /\ worker[w].needed_files # NoFiles =>
                   "stub.apk" \in DOMAIN worker[w].needed_files

\* the file name with exactly the leading lib and the trailing .so removed
Stripped(name) == Join(SubSeq(name, 2, Len(name) - 1))

\* the entry is lib/<arch>/lib<name>.so
NativeLibOf(e, arch) ==
    /\ e.dirs = <<"lib", arch>>
    /\ Len(e.name) >= 2
    /\ StartsWithLib(e.name)
    /\ EndsWithSo(e.name)

\* the compatibility rule has an entry to take for this architecture
CompatApplies(pkg, arch) ==
    /\ MagiskVer(pkg) < CompatThreshold
    /\ \E i \in 1..Len(pkg.filelist) :
           /\ ParentDir(pkg.filelist[i]) = CompatFolder(arch)
           /\ pkg.filelist[i].name = Magisk32Lib

\* C16: outside the compatibility rule (and stub.apk), every file the
\* extraction writes is the copy of an entry lib/<arch>/lib<name>.so of the
\* requested architecture, stored as <name>: the file name without its
\* leading lib and its trailing .so.
C16_NativeLibUnderLibPath ==
    \A w \in Workers :
        Extracted(w) =>
            \A f \in files :
                /\ f[1] = temp_dir
                /\ f[2] \notin {"boot.img", "stub.apk"}
                /\ ~(f[2] = "magisk32" /\ CompatApplies(apk, worker[w].arch))
                => \E i \in 1..Len(apk.filelist) :
                       /\ NativeLibOf(apk.filelist[i], worker[w].arch)
                       /\ Stripped(apk.filelist[i].name) = f[2]

\* the package has libmagisk32.so in the folder of the architecture
HasNativeMagisk32(pkg, arch) ==
    \E i \in 1..Len(pkg.filelist) : pkg.filelist[i] = Lib(arch, "magisk32")

\* C25: the payload does not depend on the order of the archive's entries:
\* when the requested architecture's own folder has libmagisk32.so, the file
\* magisk32 holds that entry, also when the compatibility rule matches a
\* libmagisk32.so of another folder.
C25_NativeMagisk32Wins ==
    \A w \in Workers :
        Extracted(w) /\ apk.readable /\ HasNativeMagisk32(apk, worker[w].arch) =>
            /\ "magisk32" \in DOMAIN worker[w].content
            /\ apk.filelist[worker[w].content["magisk32"]]
                   = Lib(worker[w].arch, "magisk32")

(***************************************************************************)
(* The configuration of a run (checked under Spec)                         *)
(***************************************************************************)
\* C17: every toolkit process started after the flags were captured runs
\* with an environment that holds the captured values of KEEPVERITY,
\* KEEPFORCEENCRYPT, PATCHVBMETAFLAG, RECOVERYMODE and LEGACYSAR.
C17_ToolkitRunsWithFlags ==
    \A w \in Workers :
        worker[w].waiting # 0 => worker[w].proc_env = worker[w].env

\* the worker has captured the flags (line 711 is behind it)
FlagsCaptured(wk) == wk.pc = "unpack" \/ wk.invoked # << >>

\* C18: the architecture a run extracts for and the flags it writes to the
\* config file and decides the legacy-SAR patch by are the selections of the
\* moment the run was started, whatever the user changes while it runs.
C18_ConfigurationFixedAtStart ==
    \A w \in Workers :
        LET wk == worker[w] IN
        Live(w) /\ wk.started.arch # None =>
            /\ wk.arch # None => wk.arch = wk.started.arch
            /\ FlagsCaptured(wk) => wk.env = EnvOf(wk.started.options)

\* the worker has made its working directory and not yet removed it
HasWorkingDir(wk) ==
    /\ wk.created # 0
    /\ wk.pc \in (TryPcs \ {"begin"}) \cup {"except", "cleanup"}

\* C19: while a run is in progress its working directory exists, with the
\* boot image the run copied into it: Clean Temp Files does not remove it.
C19_WorkingDirKeptDuringRun ==
    \A w \in Workers :
        HasWorkingDir(worker[w]) =>
            /\ worker[w].created \in tmp
            /\ <<worker[w].created, "boot.img">> \in files

(***************************************************************************)
(* The release download (checked under DownloadSpec)                       *)
(***************************************************************************)
\* C20: at most one download worker is active at a time: a request made
\* while a download is in progress starts no second one.
C20_OneDownloadAtATime ==
    Cardinality({d \in Downloaders : Downloading(d)}) <= 1

BestEffortCommands == {"hexpatch", "dtb test", "dtb patch"}

\* the pc the worker goes on with after command c, called at position idx
GoesOn(wk, c, idx) ==
    CASE c = "hexpatch" ->
             wk.pc = (IF idx < Len(AllPatches(wk.env)) THEN "hexpatch"
                      ELSE "kernel_done")
      [] c = "dtb test" -> wk.pc = "dtb_patch"
      [] c = "dtb patch" -> wk.pc = "dtb"

\* whatever run_command returns for a hexpatch, a dtb test or a dtb patch,
\* the worker raises nothing and goes on to the next step; and no digest is
\* no reason not to write the config
BestEffortGoesOn ==
    \A w \in Workers :
        /\ \A c \in BestEffortCommands :
               Returned(w, c) =>
                   /\ worker'[w].error = None
                   /\ GoesOn(worker'[w], c, worker[w].idx)
        /\ worker[w].pc = "config" /\ worker'[w].pc # "config" =>
               \/ worker'[w].pc = "patch_ramdisk" /\ worker'[w].error = None
               \/ worker'[w].pc = "except" /\ worker'[w].error \in Outside

\* C22: a failure in a best-effort step never aborts the run: after an empty
\* digest, a nonzero exit of a hexpatch, of a dtb test or of a dtb patch the
\* worker goes on to the next step, and repack is still ahead of it.
C22_BestEffortNeverAborts == [][BestEffortGoesOn]_vars

\* a run with no digest whose four hexpatches and dtb commands for two files
\* all failed is at repack
C22_Witness ==
    \E w \in Workers :
        /\ worker[w].pc = "repack"
        /\ worker[w].waiting # 0
        /\ worker[w].sha1 = ""
        /\ worker[w].error = None
        /\ Count(worker[w], "hexpatch") = 4
        /\ ~worker[w].kernel_patched
        /\ Count(worker[w], "dtb patch") = 2
        /\ worker[w].result # 0

(***************************************************************************)
(* The config file (checked under StageSpec)                               *)
(***************************************************************************)
\* the pc values past line 789
AfterConfigPcs ==
    {"patch_ramdisk", "cpio_patch", "kernel", "hexpatch", "kernel_done"}
    \cup AfterKernelPcs

TrueOrFalse(flag) == IF flag THEN "true" ELSE "false"

\* the five flag lines for the option settings opts
FlagLines(opts) ==
    << "KEEPVERITY=" \o TrueOrFalse(opts["keep_verity"]),
       "KEEPFORCEENCRYPT=" \o TrueOrFalse(opts["keep_force_encrypt"]),
       "RECOVERYMODE=" \o TrueOrFalse(opts["recovery_mode"]),
       "PATCHVBMETAFLAG=" \o TrueOrFalse(opts["patch_vbmeta_flag"]),
       "LEGACYSAR=" \o TrueOrFalse(opts["legacy_sar"]) >>

\* C23: the config file a run writes is the five flag lines, in the order
\* KEEPVERITY, KEEPFORCEENCRYPT, RECOVERYMODE, PATCHVBMETAFLAG, LEGACYSAR,
\* each true or false as the run's flag is, and after them one SHA1 line
\* exactly when the digest is not empty; it is written with and without a
\* ramdisk.
C23_ConfigFile ==
    \A w \in Workers :
        LET wk == worker[w] IN
        /\ wk.pc \in AfterConfigPcs => wk.config # << >>
        /\ wk.config # << >> =>
               /\ SubSeq(wk.config, 1, 5) = FlagLines(options)
               /\ Len(wk.config) = (IF wk.sha1 # "" THEN 6 ELSE 5)
               /\ wk.sha1 # "" => wk.config[6] = "SHA1=" \o wk.sha1

C23_Witness ==
    \E w \in Workers :
        /\ worker[w].pc = "kernel"
        /\ worker[w].ramdisk = "absent"
        /\ worker[w].sha1 = ""
        /\ Len(worker[w].config) = 5
        /\ worker[w].config[5] = "LEGACYSAR=true"
        /\ <<temp_dir, "config">> \in files

(***************************************************************************)
(* A toolkit that cannot be launched (checked under Spec)                  *)
(***************************************************************************)
\* run_command, called for command c, returns in this step without having
\* started a process: Popen raised
LaunchFailed(w, c) ==
    /\ worker[w].waiting = 0
    /\ worker'[w].waiting = 0
    /\ worker'[w].procs = worker[w].procs
    /\ Len(worker'[w].invoked) = Len(worker[w].invoked) + 1
    /\ Last(worker'[w].invoked) = c
    /\ c # "sha1"

\* the commands a run cannot go on without: for them -1 ends the run
MandatoryStages == {"unpack", "cpio test", "cpio patch", "repack"}

\* the commands whose exit code the worker throws away
UncheckedCommands == {"cpio restore", "compress"}

\* the launch failure ends the run with the stage's own exception
AbortsStage(wk) ==
    /\ wk.pc = "except"
    /\ wk.error \in StageFailures
    /\ wk.result = -1

\* what the callers do with the -1 of a launch failure: at unpack, the
\* ramdisk test, the ramdisk patch and repack it aborts the run with the
\* stage's exception, at a hexpatch or dtb command it is a failed attempt and
\* the run goes on, and after the restore and the compressions, whose exit
\* code is thrown away, the run goes on as after a success
LaunchFailureByCaller ==
    [][\A w \in Workers :
          /\ \A c \in MandatoryStages :
                 LaunchFailed(w, c) => AbortsStage(worker'[w])
          /\ \A c \in BestEffortCommands :
                 LaunchFailed(w, c) =>
                     /\ worker'[w].result = -1
                     /\ worker'[w].error = None
                     /\ worker'[w].kernel_patched = worker[w].kernel_patched
                     /\ GoesOn(worker'[w], c, worker[w].idx)
          /\ \A c \in UncheckedCommands :
                 LaunchFailed(w, c) =>
                     /\ worker'[w].result = worker[w].result
                     /\ \/ worker'[w].pc \in {"sha1", "compress"}
                           /\ worker'[w].error = None
                        \/ worker'[w].pc = "except"
                           /\ worker'[w].error \in Outside]_vars

\* C24: a launch failure comes back from run_command as -1 and every caller
\* treats it as a failed command: it aborts the run or, at a best-effort
\* step, goes on with the attempt counted as failed.
C24_LaunchFailureIsFailure ==
    [][\A w \in Workers :
          \A c \in MandatoryStages \cup UncheckedCommands \cup BestEffortCommands :
              LaunchFailed(w, c) =>
                  \/ AbortsStage(worker'[w])
                  \/ /\ c \in BestEffortCommands
                     /\ worker'[w].result = -1
                     /\ worker'[w].kernel_patched = worker[w].kernel_patched]_vars

=============================================================================
